---- MODULE Spec2Model ----
(***************************************************************************)
(* ArrayStack<T, N> (src/ArrayStack.h): a stack of at most N elements kept *)
(* in a std::array<T, N> c_ with a cursor size_t top_ that is the index of *)
(* the next free slot.  Two objects, a and b, are modelled so that swap    *)
(* and the comparisons have a partner.  The builds are the debug build     *)
(* (assert active) and the NDEBUG build (assert compiled out).             *)
(***************************************************************************)
EXTENDS Integers, Sequences, FiniteSets, TLC

\* ---- bounds of the model ----
N == 2           \* template parameter N, the capacity
MaxVal == 2      \* element values are 1..MaxVal
SizeBits == 3    \* modelled width of size_t

Val == 1..MaxVal
Idx == 0..(N - 1)
SizeMod == 2 ^ SizeBits
Stacks == {"a", "b"}

\* input sequences of calls: lengths up to N + 1, so that a source one longer
\* than the capacity is among them
SeqsOfLen(n) == [1..n -> Val]
SrcSeqs == UNION {SeqsOfLen(n) : n \in 0..(N + 1)}

VARIABLES
  c_,       \* c_[s]: the storage array of stack s, a function Idx -> Val
  top_,     \* top_[s]: the cursor of stack s
  live,     \* the stacks that have been constructed
  ndebug,   \* TRUE: the build defines NDEBUG, assert() expands to nothing
  status,   \* "run" | "aborted" (an assert failed) | "undefined" (a call broke
            \* its precondition and was not stopped)
  oob,      \* TRUE once a write landed outside an array's N slots
  failure,  \* the exception the last call raised ("none" outside throwing mode)
  ref,      \* ghost: ref[s] is the reference sequence (append / drop-last)
  logging,  \* ghost: TRUE when every call is recorded in lastOp and snap,
            \* FALSE when only swap and the calls made outside their
            \* precondition are
  lastOp,   \* ghost: the last call recorded, [op, s, seq]
  snap,     \* ghost: stack state saved before the last push, for push;pop
  pre       \* ghost: both operands saved before the last swap, for swap;swap

vars == <<c_, top_, live, ndebug, status, oob, failure, ref, logging, lastOp, snap, pre>>

Max(x, y) == IF x >= y THEN x ELSE y

\* the object s as a record
Stack(s) == [c_ |-> c_[s], top_ |-> top_[s]]

\* ---- queries ----
empty(st) == st.top_ = 0
\* full() comparing against N + 1
full_offByOne(st) == st.top_ = N + 1
full(st) == st.top_ = N
size(st) == st.top_
capacity == N
top(st) == st.c_[st.top_ - 1]
at(st, i) == st.c_[i]

\* ---- element writes ----
\* c_[i] = v: an index outside 0..N-1 leaves the N slots as they are
Write(arr, i, v) == [j \in Idx |-> IF j = i THEN v ELSE arr[j]]

\* std::ranges::copy( rng, dest ): seq[1..] lands at dest, dest+1, ...
copy(arr, dest, seq) ==
  [j \in Idx |-> IF j >= dest /\ j < dest + Len(seq) THEN seq[j - dest + 1] ELSE arr[j]]

\* ---- mutators ----
\* clear leaving the cursor where it is
clear_keepsTop(st) == st
clear(st) == [st EXCEPT !.top_ = 0]

\* push writing c_[top_ - 1]
push_writeBelowTop(st, v) ==
  [c_ |-> Write(st.c_, st.top_ - 1, v), top_ |-> (st.top_ + 1) % SizeMod]

push(st, v) ==
  [c_ |-> Write(st.c_, st.top_, v), top_ |-> (st.top_ + 1) % SizeMod]

emplace(st, v) ==
  [c_ |-> Write(st.c_, st.top_, v), top_ |-> (st.top_ + 1) % SizeMod]

\* push_range with dest = c_.data()
push_range_destAtZero(st, seq) ==
  [c_ |-> copy(st.c_, 0, seq), top_ |-> (st.top_ + Len(seq)) % SizeMod]

push_range(st, seq) ==
  [c_ |-> copy(st.c_, st.top_, seq), top_ |-> (st.top_ + Len(seq)) % SizeMod]

\* pop that also resets the vacated slot to a default value
pop_resetsSlot(st) ==
  [c_ |-> [i \in Idx |-> IF i = st.top_ - 1 THEN 1 ELSE st.c_[i]],
   top_ |-> (st.top_ - 1) % SizeMod]
pop(st) == [st EXCEPT !.top_ = (@ - 1) % SizeMod]

\* swap exchanging only the slots below the smaller size
swap_minTop(l, r) ==
  LET minTop == IF l.top_ <= r.top_ THEN l.top_ ELSE r.top_
  IN  << [c_ |-> [i \in Idx |-> IF i < minTop THEN r.c_[i] ELSE l.c_[i]], top_ |-> r.top_],
         [c_ |-> [i \in Idx |-> IF i < minTop THEN l.c_[i] ELSE r.c_[i]], top_ |-> l.top_] >>

\* swap exchanging the whole arrays: std::swap( c_, rhs.c_ )
swap_wholeArray(l, r) ==
  << [c_ |-> r.c_, top_ |-> r.top_], [c_ |-> l.c_, top_ |-> l.top_] >>

\* swap looping to this->top_ instead of the larger size
swap_lhsTop(l, r) ==
  << [c_ |-> [i \in Idx |-> IF i < l.top_ THEN r.c_[i] ELSE l.c_[i]], top_ |-> r.top_],
     [c_ |-> [i \in Idx |-> IF i < l.top_ THEN l.c_[i] ELSE r.c_[i]], top_ |-> l.top_] >>

\* l.swap( r ): <<new l, new r>>
swap(l, r) ==
  LET maxTop == Max(l.top_, r.top_)
  IN  << [c_ |-> [i \in Idx |-> IF i < maxTop THEN r.c_[i] ELSE l.c_[i]], top_ |-> r.top_],
         [c_ |-> [i \in Idx |-> IF i < maxTop THEN l.c_[i] ELSE r.c_[i]], top_ |-> l.top_] >>

\* ---- ghost bookkeeping ----
NoOp == [op |-> "none", s |-> "a", r |-> "a", seq |-> <<>>, res |-> ""]
Op(name, s, seq) == [op |-> name, s |-> s, r |-> s, seq |-> seq, res |-> ""]
\* a call with two operands: l.name( r ), and what it returned
OpPair(name, l, r, res) == [op |-> name, s |-> l, r |-> r, seq |-> <<>>, res |-> res]
Log(name, s, seq) == IF logging THEN Op(name, s, seq) ELSE NoOp
\* a call made outside its precondition is always recorded
Fault(name, s, seq) == Op(name, s, IF logging THEN seq ELSE <<>>)
NoSnap == [s |-> "none", st |-> [c_ |-> [i \in Idx |-> 1], top_ |-> 0], popped |-> FALSE]
DropLast(q) == SubSeq(q, 1, Len(q) - 1)
NoPre == [n |-> 0, l |-> "a", r |-> "a",
          L |-> [c_ |-> [i \in Idx |-> 1], top_ |-> 0],
          R |-> [c_ |-> [i \in Idx |-> 1], top_ |-> 0]]

\* the object s becomes st
Set(s, st) ==
  /\ c_' = [c_ EXCEPT ![s] = st.c_]
  /\ top_' = [top_ EXCEPT ![s] = st.top_]

\* a failed assert: abort() ends the program, nothing is written
\* the assertion placed after the cursor update it should guard
AssertFails_afterCursor(name, s, seq) ==
  /\ status' = "aborted"
  /\ top_' = [top_ EXCEPT ![s] = (@ + Len(seq)) % SizeMod]
  /\ lastOp' = Fault(name, s, seq)
  /\ snap' = NoSnap
  /\ pre' = NoPre
  /\ UNCHANGED <<c_, live, ndebug, oob, failure, ref, logging>>

AssertFails(name, s, seq) ==
  /\ status' = "aborted"
  /\ lastOp' = Fault(name, s, seq)
  /\ snap' = NoSnap
  /\ pre' = NoPre
  /\ UNCHANGED <<c_, top_, live, ndebug, oob, failure, ref, logging>>

Init ==
  /\ c_ = [s \in Stacks |-> [i \in Idx |-> 1]]
  /\ top_ = [s \in Stacks |-> 0]
  /\ live = {}
  /\ ndebug \in BOOLEAN
  /\ status = "run"
  /\ oob = FALSE
  /\ failure = "none"
  /\ ref = [s \in Stacks |-> <<>>]
  /\ logging = FALSE
  /\ lastOp = NoOp
  /\ snap = NoSnap
  /\ pre = NoPre

\* ---- construction ----
\* MakeArray<InIt, N>( first, last ): a local array of indeterminate values
\* (junk), the first count slots overwritten by copy_n.  The source is a
\* sequence that can be traversed again (container iterators): std::distance
\* and copy_n each walk it from first.
MakeArrayIt(seq, junk) ==
  [j \in Idx |-> IF j < Len(seq) THEN seq[j + 1] ELSE junk[j]]

\* MakeArray<Range, N>( rng )
MakeArrayRange(seq, junk) ==
  [j \in Idx |-> IF j < Len(seq) THEN seq[j + 1] ELSE junk[j]]

ArrayStackDefault(junk) == [c_ |-> junk, top_ |-> 0]
ArrayStackArray(arr) == [c_ |-> arr, top_ |-> N]
\* the iterator constructor setting top_ as the array constructor does
ArrayStackIt_topAtCapacity(seq, junk) == [c_ |-> MakeArrayIt(seq, junk), top_ |-> N]
ArrayStackIt(seq, junk) == [c_ |-> MakeArrayIt(seq, junk), top_ |-> Len(seq) % SizeMod]
ArrayStackRange(seq, junk) == [c_ |-> MakeArrayRange(seq, junk), top_ |-> Len(seq) % SizeMod]

\* the slots copy_n leaves indeterminate
JunkAfter(seq) == [Len(seq)..(N - 1) -> Val]

Constructed(name, s, st, q, seq) ==
  /\ Set(s, st)
  /\ live' = live \cup {s}
  /\ ref' = [ref EXCEPT ![s] = q]
  /\ lastOp' = Log(name, s, seq)
  /\ snap' = NoSnap
  /\ pre' = NoPre
  /\ UNCHANGED <<ndebug, status, oob, failure, logging>>

\* the source is longer than N and nothing stopped the copy: copy_n runs past
\* the end of the local array, top_ is the source length
ConstructedPastEnd(name, s, st, seq) ==
  /\ Set(s, st)
  /\ live' = live \cup {s}
  /\ status' = "undefined"
  /\ oob' = TRUE
  /\ lastOp' = Fault(name, s, seq)
  /\ snap' = NoSnap
  /\ pre' = NoPre
  /\ UNCHANGED <<ndebug, failure, ref, logging>>

CtorDefault(s) ==
  /\ status = "run" /\ s \notin live
  /\ \E junk \in [Idx -> Val] :
       Constructed("ctor_default", s, ArrayStackDefault(junk), <<>>, <<>>)

CtorArray(s, arr) ==
  /\ status = "run" /\ s \notin live
  /\ Constructed("ctor_array", s, ArrayStackArray(arr), [i \in 1..N |-> arr[i - 1]], <<>>)

CtorIt(s, seq) ==
  /\ status = "run" /\ s \notin live
  /\ IF Len(seq) <= N
       THEN \E junk \in JunkAfter(seq) :
              Constructed("ctor_it", s, ArrayStackIt(seq, junk), seq, seq)
       ELSE IF ~ndebug
              THEN AssertFails("ctor_it", s, seq)
              ELSE ConstructedPastEnd("ctor_it", s, ArrayStackIt(seq, <<>>), seq)

\* MakeArray<Range, N> holds no assert
CtorRange(s, seq) ==
  /\ status = "run" /\ s \notin live
  /\ IF Len(seq) <= N
       THEN \E junk \in JunkAfter(seq) :
              Constructed("ctor_range", s, ArrayStackRange(seq, junk), seq, seq)
       ELSE ConstructedPastEnd("ctor_range", s, ArrayStackRange(seq, <<>>), seq)

\* ---- calls in the default (non-throwing) configuration ----
\* the call was made outside its precondition and ran: the object becomes st
Unchecked(name, s, st, seq, wroteOutside) ==
  /\ Set(s, st)
  /\ status' = "undefined"
  /\ oob' = (oob \/ wroteOutside)
  /\ lastOp' = Fault(name, s, seq)
  /\ snap' = NoSnap
  /\ pre' = NoPre
  /\ UNCHANGED <<live, ndebug, failure, ref, logging>>

\* c_[N] = v writes the memory that follows c_, where top_ is declared: top_
\* keeps its value or takes v, and is then incremented
TopAfterWritePast(st, v) == {(st.top_ + 1) % SizeMod, (v + 1) % SizeMod}

Push(s, v) ==
  /\ status = "run" /\ s \in live
  /\ IF ~full(Stack(s))
       THEN /\ Set(s, push(Stack(s), v))
            /\ ref' = [ref EXCEPT ![s] = Append(@, v)]
            /\ lastOp' = Log("push", s, <<v>>)
            /\ snap' = IF logging THEN [s |-> s, st |-> Stack(s), popped |-> FALSE] ELSE NoSnap
            /\ pre' = NoPre
            /\ UNCHANGED <<live, ndebug, status, oob, failure, logging>>
       ELSE IF ~ndebug
              THEN AssertFails("push", s, <<v>>)
              ELSE \E t \in TopAfterWritePast(Stack(s), v) :
                     Unchecked("push", s, [c_ |-> push(Stack(s), v).c_, top_ |-> t], <<v>>, TRUE)

\* emplace holds no assert
Emplace(s, v) ==
  /\ status = "run" /\ s \in live
  /\ IF ~full(Stack(s))
       THEN /\ Set(s, emplace(Stack(s), v))
            /\ ref' = [ref EXCEPT ![s] = Append(@, v)]
            /\ lastOp' = Log("emplace", s, <<v>>)
            /\ snap' = NoSnap
            /\ pre' = NoPre
            /\ UNCHANGED <<live, ndebug, status, oob, failure, logging>>
       ELSE \E t \in TopAfterWritePast(Stack(s), v) :
              Unchecked("emplace", s, [c_ |-> emplace(Stack(s), v).c_, top_ |-> t], <<v>>, TRUE)

PushRange(s, seq) ==
  /\ status = "run" /\ s \in live
  /\ IF size(Stack(s)) + Len(seq) <= capacity
       THEN /\ Set(s, push_range(Stack(s), seq))
            /\ ref' = [ref EXCEPT ![s] = @ \o seq]
            /\ lastOp' = Log("push_range", s, seq)
            /\ snap' = NoSnap
            /\ pre' = NoPre
            /\ UNCHANGED <<live, ndebug, status, oob, failure, logging>>
       ELSE IF ~ndebug
              THEN AssertFails("push_range", s, seq)
              ELSE Unchecked("push_range", s, push_range(Stack(s), seq), seq, TRUE)

Pop(s) ==
  /\ status = "run" /\ s \in live
  /\ IF ~empty(Stack(s))
       THEN /\ Set(s, pop(Stack(s)))
            /\ ref' = [ref EXCEPT ![s] = DropLast(@)]
            /\ lastOp' = Log("pop", s, <<>>)
            /\ snap' = IF snap.s = s /\ ~snap.popped
                         THEN [snap EXCEPT !.popped = TRUE]
                         ELSE NoSnap
            /\ pre' = NoPre
            /\ UNCHANGED <<live, ndebug, status, oob, failure, logging>>
       ELSE IF ~ndebug
              THEN AssertFails("pop", s, <<>>)
              ELSE Unchecked("pop", s, pop(Stack(s)), <<>>, FALSE)

Clear(s) ==
  /\ status = "run" /\ s \in live
  /\ Set(s, clear(Stack(s)))
  /\ ref' = [ref EXCEPT ![s] = <<>>]
  /\ lastOp' = Log("clear", s, <<>>)
  /\ snap' = NoSnap
  /\ pre' = NoPre
  /\ UNCHANGED <<live, ndebug, status, oob, failure, logging>>

Swap(l, r) ==
  /\ status = "run" /\ l \in live /\ r \in live
  /\ LET res == swap(Stack(l), Stack(r))
     IN  /\ c_' = [c_ EXCEPT ![l] = res[1].c_, ![r] = res[2].c_]
         /\ top_' = [top_ EXCEPT ![l] = res[1].top_, ![r] = res[2].top_]
  /\ ref' = [ref EXCEPT ![l] = ref[r], ![r] = ref[l]]
  /\ lastOp' = OpPair("swap", l, r, "")
  /\ snap' = NoSnap
  /\ pre' = IF ~logging THEN NoPre
            ELSE IF pre.n = 1 /\ pre.l = l /\ pre.r = r
                   THEN [pre EXCEPT !.n = 2]
                   ELSE [n |-> 1, l |-> l, r |-> r, L |-> Stack(l), R |-> Stack(r)]
  /\ UNCHANGED <<live, ndebug, status, oob, failure, logging>>

\* top(): the value returned is recorded in lastOp.seq
TopCall(s) ==
  /\ status = "run" /\ s \in live
  /\ IF ~empty(Stack(s))
       THEN /\ lastOp' = Log("top", s, <<top(Stack(s))>>)
            /\ snap' = NoSnap
            /\ pre' = NoPre
            /\ UNCHANGED <<c_, top_, live, ndebug, status, oob, failure, ref, logging>>
       ELSE IF ~ndebug
              THEN AssertFails("top", s, <<>>)
              ELSE \E x \in Val : Unchecked("top", s, Stack(s), <<x>>, FALSE)

\* sequences handed to push_range
RangeSeqs == UNION {SeqsOfLen(n) : n \in 0..N}

NextOn(S) ==
  \/ \E s \in S : CtorDefault(s)
  \/ \E s \in S, arr \in [Idx -> Val] : CtorArray(s, arr)
  \/ \E s \in S, seq \in SrcSeqs : CtorIt(s, seq)
  \/ \E s \in S, seq \in SrcSeqs : CtorRange(s, seq)
  \/ \E s \in S, v \in Val : Push(s, v)
  \/ \E s \in S, v \in Val : Emplace(s, v)
  \/ \E s \in S, seq \in RangeSeqs : PushRange(s, seq)
  \/ \E s \in S : Pop(s)
  \/ \E s \in S : Clear(s)
  \/ \E l \in S, r \in S : Swap(l, r)
  \/ \E s \in S : TopCall(s)

\* two objects, every call on either
Next == NextOn(Stacks)

Spec == Init /\ [][Next]_vars

\* one object with every call recorded
InitOne ==
  /\ c_ = [s \in Stacks |-> [i \in Idx |-> 1]]
  /\ top_ = [s \in Stacks |-> 0]
  /\ live = {}
  /\ ndebug \in BOOLEAN
  /\ status = "run"
  /\ oob = FALSE
  /\ failure = "none"
  /\ ref = [s \in Stacks |-> <<>>]
  /\ logging = TRUE
  /\ lastOp = NoOp
  /\ snap = NoSnap
  /\ pre = NoPre

NextOne == NextOn({"a"})

SpecOne == InitOne /\ [][NextOne]_vars

\* two default-constructed objects and push alone
InitPush ==
  /\ c_ \in [Stacks -> [Idx -> Val]]
  /\ top_ = [s \in Stacks |-> ArrayStackDefault(c_[s]).top_]
  /\ live = Stacks
  /\ ndebug \in BOOLEAN
  /\ status = "run"
  /\ oob = FALSE
  /\ failure = "none"
  /\ ref = [s \in Stacks |-> <<>>]
  /\ logging = FALSE
  /\ lastOp = NoOp
  /\ snap = NoSnap
  /\ pre = NoPre

NextPush == \E s \in Stacks, v \in Val : Push(s, v)

SpecPush == InitPush /\ [][NextPush]_vars

\* ---- comparisons ----
\* std::equal( first, last, first2 ) over the slots i .. last - 1
RECURSIVE std_equal(_, _, _, _)
std_equal(x, y, i, last) ==
  IF i = last THEN TRUE
  ELSE IF x[i] # y[i] THEN FALSE
  ELSE std_equal(x, y, i + 1, last)

\* operator== comparing the whole arrays, as std::array's operator== does
operator_eq_wholeArray(l, r) == l.top_ = r.top_ /\ l.c_ = r.c_

\* l == r
operator_eq(l, r) ==
  IF l.top_ # r.top_ THEN FALSE ELSE std_equal(l.c_, r.c_, 0, l.top_)

\* SynthThreeWay{}( x, y ): for a type with operator<=> and for one with only
\* < and > the result is the same
SynthThreeWay(x, y) ==
  IF x < y THEN "less" ELSE IF x > y THEN "greater" ELSE "equal"

\* std::lexicographical_compare_three_way( i, iend, j, jend, comp )
RECURSIVE lexicographical_compare_three_way(_, _, _, _, _, _)
lexicographical_compare_three_way(x, i, iend, y, j, jend) ==
  IF i = iend THEN (IF j = jend THEN "equal" ELSE "less")
  ELSE IF j = jend THEN "greater"
  ELSE LET c == SynthThreeWay(x[i], y[j])
       IN  IF c # "equal" THEN c
           ELSE lexicographical_compare_three_way(x, i + 1, iend, y, j + 1, jend)

\* operator<=> comparing the cursors first and the elements only when they match
operator_cmp_sizeFirst(l, r) ==
  IF l.top_ # r.top_ THEN SynthThreeWay(l.top_, r.top_)
  ELSE lexicographical_compare_three_way(l.c_, 0, l.top_, r.c_, 0, r.top_)

\* l <=> r
operator_cmp(l, r) ==
  lexicographical_compare_three_way(l.c_, 0, l.top_, r.c_, 0, r.top_)

\* a call that reads two objects and writes none
Compared(name, l, r, res) ==
  /\ lastOp' = (IF logging THEN OpPair(name, l, r, res) ELSE NoOp)
  /\ snap' = NoSnap
  /\ pre' = NoPre
  /\ UNCHANGED <<c_, top_, live, ndebug, status, oob, failure, ref, logging>>

Equals(l, r) ==
  /\ status = "run" /\ l \in live /\ r \in live
  /\ Compared("eq", l, r, IF operator_eq(Stack(l), Stack(r)) THEN "true" ELSE "false")

Compare(l, r) ==
  /\ status = "run" /\ l \in live /\ r \in live
  /\ Compared("cmp", l, r, operator_cmp(Stack(l), Stack(r)))

\* two objects built from iterator pairs, then swaps and comparisons, every
\* call recorded
InitPair ==
  /\ \E sa \in SrcSeqs, sb \in SrcSeqs :
       /\ Len(sa) <= N /\ Len(sb) <= N
       /\ \E ja \in JunkAfter(sa), jb \in JunkAfter(sb) :
            /\ c_ = [s \in Stacks |-> IF s = "a" THEN ArrayStackIt(sa, ja).c_
                                                 ELSE ArrayStackIt(sb, jb).c_]
            /\ top_ = [s \in Stacks |-> IF s = "a" THEN ArrayStackIt(sa, ja).top_
                                                   ELSE ArrayStackIt(sb, jb).top_]
       /\ ref = [s \in Stacks |-> IF s = "a" THEN sa ELSE sb]
  /\ live = Stacks
  /\ ndebug \in BOOLEAN
  /\ status = "run"
  /\ oob = FALSE
  /\ failure = "none"
  /\ logging = TRUE
  /\ lastOp = NoOp
  /\ snap = NoSnap
  /\ pre = NoPre

NextPair ==
  \/ \E l \in Stacks, r \in Stacks : Swap(l, r)
  \/ \E l \in Stacks, r \in Stacks : Equals(l, r)
  \/ \E l \in Stacks, r \in Stacks : Compare(l, r)

SpecPair == InitPair /\ [][NextPair]_vars

\* ---- a cleared object beside a default-constructed one ----
\* a.clear() on a live object, and b default-constructed anew beside it
ClearBesideFresh ==
  /\ status = "run" /\ "a" \in live
  /\ \E junk \in [Idx -> Val] :
       /\ c_' = [s \in Stacks |-> IF s = "a" THEN clear(Stack("a")).c_
                                            ELSE ArrayStackDefault(junk).c_]
       /\ top_' = [s \in Stacks |-> IF s = "a" THEN clear(Stack("a")).top_
                                              ELSE ArrayStackDefault(junk).top_]
  /\ live' = Stacks
  /\ ref' = [s \in Stacks |-> <<>>]
  /\ lastOp' = OpPair("clear", "a", "b", "")
  /\ snap' = NoSnap
  /\ pre' = NoPre
  /\ UNCHANGED <<ndebug, status, oob, failure, logging>>

\* the same call, inside its precondition, made on a and on b
OnBoth(name, sa, sb, seqa, seqb) ==
  /\ status = "run" /\ live = Stacks
  /\ lastOp.s = "a" /\ lastOp.r = "b"
  /\ c_' = [s \in Stacks |-> IF s = "a" THEN sa.c_ ELSE sb.c_]
  /\ top_' = [s \in Stacks |-> IF s = "a" THEN sa.top_ ELSE sb.top_]
  /\ ref' = [s \in Stacks |-> IF s = "a" THEN seqa ELSE seqb]
  /\ lastOp' = OpPair(name, "a", "b", "")
  /\ snap' = NoSnap
  /\ pre' = NoPre
  /\ UNCHANGED <<live, ndebug, status, oob, failure, logging>>

BothPush(v) ==
  /\ ~full(Stack("a")) /\ ~full(Stack("b"))
  /\ OnBoth("push", push(Stack("a"), v), push(Stack("b"), v),
            Append(ref["a"], v), Append(ref["b"], v))

BothEmplace(v) ==
  /\ ~full(Stack("a")) /\ ~full(Stack("b"))
  /\ OnBoth("emplace", emplace(Stack("a"), v), emplace(Stack("b"), v),
            Append(ref["a"], v), Append(ref["b"], v))

BothPushRange(seq) ==
  /\ size(Stack("a")) + Len(seq) <= capacity
  /\ size(Stack("b")) + Len(seq) <= capacity
  /\ OnBoth("push_range", push_range(Stack("a"), seq), push_range(Stack("b"), seq),
            ref["a"] \o seq, ref["b"] \o seq)

BothPop ==
  /\ ~empty(Stack("a")) /\ ~empty(Stack("b"))
  /\ OnBoth("pop", pop(Stack("a")), pop(Stack("b")),
            DropLast(ref["a"]), DropLast(ref["b"]))

\* a built from an iterator pair: every size 0..N over every storage content
InitClear ==
  /\ \E seq \in SrcSeqs :
       /\ Len(seq) <= N
       /\ \E junk \in JunkAfter(seq) :
            /\ c_ = [s \in Stacks |-> IF s = "a" THEN ArrayStackIt(seq, junk).c_
                                                 ELSE [i \in Idx |-> 1]]
            /\ top_ = [s \in Stacks |-> IF s = "a" THEN ArrayStackIt(seq, junk).top_
                                                   ELSE 0]
       /\ ref = [s \in Stacks |-> IF s = "a" THEN seq ELSE <<>>]
  /\ live = {"a"}
  /\ ndebug \in BOOLEAN
  /\ status = "run"
  /\ oob = FALSE
  /\ failure = "none"
  /\ logging = TRUE
  /\ lastOp = NoOp
  /\ snap = NoSnap
  /\ pre = NoPre

\* a.clear() beside a new b, then the same calls on both
NextClear ==
  \/ ClearBesideFresh
  \/ \E v \in Val : BothPush(v)
  \/ \E v \in Val : BothEmplace(v)
  \/ \E seq \in RangeSeqs : BothPushRange(seq)
  \/ BothPop

SpecClear == InitClear /\ [][NextClear]_vars

\* ---- queries ----
Bool(b) == IF b THEN "true" ELSE "false"

\* s.empty(), s.full(), s.size(), s.capacity(): the call and what it returned
Query(s, name) ==
  /\ status = "run" /\ s \in live
  /\ lastOp' = [op |-> name, s |-> s, r |-> s,
                seq |-> IF name = "size" THEN <<size(Stack(s))>>
                        ELSE IF name = "capacity" THEN <<capacity>>
                        ELSE <<>>,
                res |-> IF name = "empty" THEN Bool(empty(Stack(s)))
                        ELSE IF name = "full" THEN Bool(full(Stack(s)))
                        ELSE ""]
  /\ snap' = NoSnap
  /\ pre' = NoPre
  /\ UNCHANGED <<c_, top_, live, ndebug, status, oob, failure, ref, logging>>

\* s[i], read. Without the assertion an index inside the array returns the
\* stale slot and an index outside it reads past the storage.
IndexCall(s, i) ==
  /\ status = "run" /\ s \in live
  /\ IF i < size(Stack(s))
       THEN /\ lastOp' = Log("index", s, <<at(Stack(s), i)>>)
            /\ snap' = NoSnap
            /\ pre' = NoPre
            /\ UNCHANGED <<c_, top_, live, ndebug, status, oob, failure, ref, logging>>
       ELSE IF ~ndebug
              THEN AssertFails("index", s, <<>>)
              ELSE \E x \in (IF i < N THEN {at(Stack(s), i)} ELSE Val) :
                     Unchecked("index", s, Stack(s), <<x>>, FALSE)

Queries == {"empty", "full", "size", "capacity"}

\* every call on one object, the queries included
NextQuery ==
  \/ NextOn({"a"})
  \/ \E name \in Queries : Query("a", name)
  \/ \E i \in 0..N : IndexCall("a", i)

SpecQuery == InitOne /\ [][NextQuery]_vars

\* ---- the throwing configuration ----
\* The header in src/ only carries the checks as comments
\* ("// if( full() ) throw std::out_of_range( ... )"); the configuration that
\* enables them is described by the README and modelled from the specification:
\* the check runs first, a failed check raises and writes nothing.
\* push that never raises
throws_push_never(st) == FALSE
throws_push(st) == full(st)
throws_push_range(st, seq) == size(st) + Len(seq) > capacity
throws_pop(st) == empty(st)
throws_top(st) == empty(st)

\* the call raised: the caller catches the failure and goes on
Raised(kind, name, s, seq) ==
  /\ failure' = kind
  /\ lastOp' = Log(name, s, seq)
  /\ snap' = NoSnap
  /\ pre' = NoPre
  /\ UNCHANGED <<c_, top_, live, ndebug, status, oob, ref, logging>>

Returned(name, s, st, q, seq) ==
  /\ Set(s, st)
  /\ ref' = [ref EXCEPT ![s] = q]
  /\ failure' = "none"
  /\ lastOp' = Log(name, s, seq)
  /\ snap' = NoSnap
  /\ pre' = NoPre
  /\ UNCHANGED <<live, ndebug, status, oob, logging>>

PushT(s, v) ==
  /\ status = "run" /\ s \in live
  /\ IF throws_push(Stack(s))
       THEN Raised("overflow", "push", s, <<v>>)
       ELSE Returned("push", s, push(Stack(s), v), Append(ref[s], v), <<v>>)

PushRangeT(s, seq) ==
  /\ status = "run" /\ s \in live
  /\ IF throws_push_range(Stack(s), seq)
       THEN Raised("overflow", "push_range", s, seq)
       ELSE Returned("push_range", s, push_range(Stack(s), seq), ref[s] \o seq, seq)

PopT(s) ==
  /\ status = "run" /\ s \in live
  /\ IF throws_pop(Stack(s))
       THEN Raised("underflow", "pop", s, <<>>)
       ELSE Returned("pop", s, pop(Stack(s)), DropLast(ref[s]), <<>>)

TopT(s) ==
  /\ status = "run" /\ s \in live
  /\ IF throws_top(Stack(s))
       THEN Raised("empty", "top", s, <<>>)
       ELSE Returned("top", s, Stack(s), ref[s], <<top(Stack(s))>>)

NextThrow ==
  \/ \E s \in {"a"} : CtorDefault(s)
  \/ \E s \in {"a"}, v \in Val : PushT(s, v)
  \/ \E s \in {"a"}, seq \in RangeSeqs : PushRangeT(s, seq)
  \/ \E s \in {"a"} : PopT(s)
  \/ \E s \in {"a"} : TopT(s)

SpecThrow == InitOne /\ [][NextThrow]_vars

\* ---- properties ----

\* C1: while every construction and every call (push, emplace, push_range, pop,
\* clear, swap) was made inside its documented precondition, the size of every
\* constructed stack is at least 0 and at most the capacity N.
C1_SizeInRange ==
  status = "run" => \A s \in live : top_[s] >= 0 /\ top_[s] <= N

\* a swap has just exchanged a full stack with an empty one
C1_Witness ==
  /\ status = "run" /\ lastOp.op = "swap"
  /\ top_["a"] = N /\ top_["b"] = 0

\* C2: a non-empty stack has the size of the reference sequence (append on
\* push / emplace / push_range, drop-last on pop, emptied by clear), top() is the
\* last element of that sequence, and a call of top() returns it.
C2_TopIsLast ==
  status = "run" =>
    /\ \A s \in live :
         ~empty(Stack(s)) =>
           /\ size(Stack(s)) = Len(ref[s])
           /\ top(Stack(s)) = ref[s][Len(ref[s])]
    /\ lastOp.op = "top" => lastOp.seq = <<ref[lastOp.s][Len(ref[lastOp.s])]>>

\* top() was called on a stack that is neither empty nor full and whose free
\* slot above the top holds another value than the one returned
C2_Witness ==
  /\ status = "run" /\ lastOp.op = "top"
  /\ top_["a"] >= 1 /\ top_["a"] < N
  /\ c_["a"][top_["a"]] # lastOp.seq[1]

\* C3: after k pushes onto an empty stack, none beyond the capacity, size() is
\* k, empty() is false when k >= 1, and full() is true exactly when k = N.
C3_PushCount ==
  status # "undefined" =>
    \A s \in Stacks :
      /\ size(Stack(s)) = Len(ref[s])
      /\ (Len(ref[s]) >= 1 => ~empty(Stack(s)))
      /\ (full(Stack(s)) <=> Len(ref[s]) = N)

\* a was pushed N times and is full, b was pushed once and is neither empty nor full
C3_Witness ==
  /\ status = "run"
  /\ Len(ref["a"]) = N /\ full(Stack("a"))
  /\ Len(ref["b"]) = 1 /\ ~full(Stack("b")) /\ ~empty(Stack("b"))

\* C4: push(v) on a stack that is not full, followed at once by pop(), gives
\* back the size before the push, the top before the push when there was one,
\* and every element below the size before the push.
C4_PushPopRestores ==
  snap.popped =>
    LET now == Stack(snap.s)
        was == snap.st
    IN  /\ size(now) = size(was)
        /\ (size(was) >= 1 => top(now) = top(was))
        /\ \A i \in Idx : i < size(was) => at(now, i) = at(was, i)

\* push;pop ran on a non-empty stack and the value pushed, still in the
\* vacated slot, is not the top
C4_Witness ==
  /\ snap.popped /\ snap.s = "a"
  /\ size(snap.st) >= 1
  /\ c_["a"][top_["a"]] # top(Stack("a"))

\* C5: after pushing v0..v(k-1) onto an empty stack, operator[](i) is v_i for
\* every i < size().
C5_IndexIsPushOrder ==
  status # "undefined" =>
    \A s \in Stacks : \A i \in Idx :
      i < size(Stack(s)) => at(Stack(s), i) = ref[s][i + 1]

\* a holds N pushed values, the first two of them different
C5_Witness ==
  /\ status = "run"
  /\ Len(ref["a"]) = N
  /\ at(Stack("a"), 0) # at(Stack("a"), 1)

\* push applied to each element of seq in turn
RECURSIVE PushEach(_, _)
PushEach(st, seq) ==
  IF seq = <<>> THEN st ELSE PushEach(push(st, Head(seq)), Tail(seq))

\* C6: a push_range(seq) made with size() + length(seq) <= N leaves the stack
\* with the size and the storage that pushing the elements of seq one by one,
\* in order, leaves.
C6_PushRangeIsPushes ==
  [][ (lastOp'.op = "push_range" /\ status' = "run")
        => LET s == lastOp'.s
           IN  /\ top_'[s] = PushEach(Stack(s), lastOp'.seq).top_
               /\ c_'[s] = PushEach(Stack(s), lastOp'.seq).c_ ]_vars

\* push_range was given two different values
C6_Witness ==
  /\ status = "run" /\ lastOp.op = "push_range"
  /\ Len(lastOp.seq) = 2 /\ lastOp.seq[1] # lastOp.seq[2]

C8_EmplaceStopped ==
  (~ndebug /\ lastOp.op = "emplace") => (~oob /\ top_[lastOp.s] <= N)

\* C9 (as claimed): in the debug build a construction from a source longer
\* than N, iterator pair or sized range, is stopped by an assert before any
\* element is written.
C9_LongSourceStopped ==
  (~ndebug /\ lastOp.op \in {"ctor_it", "ctor_range"} /\ Len(lastOp.seq) > N)
    => (status = "aborted" /\ ~oob)

C11_SwapExchanges ==
  [][ lastOp'.op = "swap" =>
        LET l == lastOp'.s
            r == lastOp'.r
            m == Max(top_[l], top_[r])
        IN  /\ top_'[l] = top_[r] /\ top_'[r] = top_[l]
            /\ \A i \in Idx : i < m =>
                 /\ c_'[l][i] = c_[r][i]
                 /\ c_'[r][i] = c_[l][i] ]_vars

\* a and b were swapped; they differ in size and in the bottom element
C11_Witness ==
  /\ lastOp.op = "swap" /\ lastOp.s # lastOp.r
  /\ top_["a"] # top_["b"]
  /\ top_["a"] >= 1 /\ top_["b"] >= 1
  /\ c_["a"][0] # c_["b"][0]

\* C12: l == r is true exactly when the sizes match and the slots below the
\* size match pairwise; the slots at or above the size play no part, so two
\* objects holding the same pushed sequence are equal whatever their stale
\* slots hold, and an object holding one element more than another is unequal.
C12_EqualIsPrefixEquality ==
  lastOp.op = "eq" =>
    LET A == Stack(lastOp.s)
        B == Stack(lastOp.r)
        eq == (lastOp.res = "true")
    IN  /\ eq <=> /\ size(A) = size(B)
                  /\ \A i \in Idx : i < size(A) => at(A, i) = at(B, i)
        /\ eq <=> (ref[lastOp.s] = ref[lastOp.r])
        /\ (\E v \in Val : ref[lastOp.s] = Append(ref[lastOp.r], v)) => ~eq

\* a == b returned true while a stale slot of a differs from that slot of b
C12_Witness ==
  /\ lastOp.op = "eq" /\ lastOp.s = "a" /\ lastOp.r = "b"
  /\ lastOp.res = "true"
  /\ top_["a"] = 1
  /\ c_["a"][N - 1] # c_["b"][N - 1]

\* C13: l <=> r orders the two occupied prefixes lexicographically: the first
\* index at which they differ decides, whatever the sizes; with no such index
\* the shorter one is less and two of the same length are equal.
C13_CompareIsLexicographic ==
  lastOp.op = "cmp" =>
    LET p == ref[lastOp.s]
        q == ref[lastOp.r]
        common == IF Len(p) <= Len(q) THEN Len(p) ELSE Len(q)
        differ == {i \in 1..common : p[i] # q[i]}
        first == CHOOSE i \in differ : \A j \in differ : i <= j
    IN  /\ p = [i \in 1..size(Stack(lastOp.s)) |-> at(Stack(lastOp.s), i - 1)]
        /\ q = [i \in 1..size(Stack(lastOp.r)) |-> at(Stack(lastOp.r), i - 1)]
        /\ differ # {} /\ p[first] < q[first] => lastOp.res = "less"
        /\ differ # {} /\ p[first] > q[first] => lastOp.res = "greater"
        /\ differ = {} /\ Len(p) < Len(q) => lastOp.res = "less"
        /\ differ = {} /\ Len(p) > Len(q) => lastOp.res = "greater"
        /\ differ = {} /\ Len(p) = Len(q) => lastOp.res = "equal"

\* [2] <=> [1, 2] returned greater: the shorter operand wins on its first slot
C13_Witness ==
  /\ lastOp.op = "cmp" /\ lastOp.s = "a" /\ lastOp.r = "b"
  /\ ref["a"] = <<2>> /\ ref["b"] = <<1, 2>>
  /\ lastOp.res = "greater"

\* C18: the two comparisons agree: whenever l == r has returned, it returned
\* true exactly if l <=> r is equal, and whenever l <=> r has returned, it
\* returned equal exactly if l == r is true, also when the slots above the
\* sizes differ.
C18_EqualAgreesWithCompare ==
  LET A == Stack(lastOp.s)
      B == Stack(lastOp.r)
  IN  /\ lastOp.op = "eq" => ((lastOp.res = "true") <=> (operator_cmp(A, B) = "equal"))
      /\ lastOp.op = "cmp" => ((lastOp.res = "equal") <=> operator_eq(A, B))

\* a <=> b returned equal while a stale slot of a differs from that slot of b
C18_Witness ==
  /\ lastOp.op = "cmp" /\ lastOp.s = "a" /\ lastOp.r = "b"
  /\ lastOp.res = "equal"
  /\ top_["a"] < N
  /\ \E i \in Idx : i >= top_["a"] /\ c_["a"][i] # c_["b"][i]

\* C16: a swap of l and r leaves every slot at an index at or above the larger
\* of the two old sizes as it was, in both objects, and writes nothing but
\* the slots below that index and the two size counters.
C16_SwapFrame ==
  [][ lastOp'.op = "swap" =>
        LET l == lastOp'.s
            r == lastOp'.r
            m == Max(top_[l], top_[r])
        IN  /\ \A i \in Idx : i >= m =>
                 /\ c_'[l][i] = c_[l][i]
                 /\ c_'[r][i] = c_[r][i]
            /\ \A s \in Stacks \ {l, r} : c_'[s] = c_[s] /\ top_'[s] = top_[s]
            /\ {top_'[l], top_'[r]} = {top_[l], top_[r]} ]_vars

\* a and b were swapped; both sizes are below N and the two top slots, which
\* no size covers, still differ
C16_Witness ==
  /\ lastOp.op = "swap" /\ lastOp.s # lastOp.r
  /\ top_["a"] < N /\ top_["b"] < N
  /\ top_["a"] # top_["b"]
  /\ c_["a"][N - 1] # c_["b"][N - 1]

\* C19: swapping the same two objects twice in a row restores the size and
\* every slot of both, and l.swap( r ) leaves the pair as r.swap( l ) would.
C19_SwapInvolutionSymmetric ==
  /\ pre.n = 2 => Stack(pre.l) = pre.L /\ Stack(pre.r) = pre.R
  /\ pre.n = 1 => /\ Stack(pre.l) = swap(pre.R, pre.L)[2]
                  /\ Stack(pre.r) = swap(pre.R, pre.L)[1]

\* a and b, of different sizes and contents, were swapped twice in a row
C19_Witness ==
  /\ pre.n = 2 /\ pre.l # pre.r
  /\ pre.L.top_ # pre.R.top_
  /\ pre.L.c_ # pre.R.c_
  /\ lastOp.op = "swap"

\* C14: once a has been cleared it is empty with size zero, and after any
\* sequence of calls made on it and, alike, on a default-constructed b, the
\* two cannot be told apart: same size, empty and full, same top, same
\* element at every index below the size, a == b, and a <=> b equal.
C14_ClearedIsFresh ==
  lastOp.s = "a" /\ lastOp.r = "b" =>
    LET A == Stack("a")
        B == Stack("b")
    IN  /\ lastOp.op = "clear" => empty(A) /\ size(A) = 0
        /\ size(A) = size(B)
        /\ empty(A) = empty(B)
        /\ full(A) = full(B)
        /\ ~empty(A) => top(A) = top(B)
        /\ \A i \in Idx : i < size(A) => at(A, i) = at(B, i)
        /\ operator_eq(A, B)
        /\ operator_cmp(A, B) = "equal"

\* a was cleared, both then took the same calls and hold N - 1 elements, and
\* the storage of the two differs above the size
C14_Witness ==
  /\ lastOp.s = "a" /\ lastOp.r = "b" /\ lastOp.op = "push"
  /\ size(Stack("a")) = N - 1
  /\ c_["a"] # c_["b"]

\* C15 as stated: every push on a full object, pop or top on an empty one and
\* push_range past the capacity stops at its assertion with storage and sizes
\* as they were. Stopped by a build that defines NDEBUG, where the call runs on.
C15_ViolationAlwaysAsserted ==
  [][ LET s == lastOp'.s
          violated ==
            \/ lastOp'.op = "push" /\ full(Stack(s))
            \/ lastOp'.op \in {"pop", "top"} /\ empty(Stack(s))
            \/ lastOp'.op = "push_range" /\ size(Stack(s)) + Len(lastOp'.seq) > capacity
      IN  status = "run" /\ violated =>
            status' = "aborted" /\ c_' = c_ /\ top_' = top_ ]_vars

\* C15: in a build with assertions every push on a full object, pop or top on
\* an empty one and push_range past the capacity stops at its assertion
\* before anything is written: storage and sizes are as they were, so no part
\* of the range has been copied.
C15_AssertBeforeWrite ==
  [][ LET s == lastOp'.s
          violated ==
            \/ lastOp'.op = "push" /\ full(Stack(s))
            \/ lastOp'.op \in {"pop", "top"} /\ empty(Stack(s))
            \/ lastOp'.op = "push_range" /\ size(Stack(s)) + Len(lastOp'.seq) > capacity
      IN  ~ndebug /\ status = "run" /\ violated =>
            status' = "aborted" /\ c_' = c_ /\ top_' = top_ ]_vars

\* a push_range that fits only in part stopped at its assertion
C15_Witness ==
  /\ ~ndebug /\ status = "aborted"
  /\ lastOp.op = "push_range"
  /\ size(Stack(lastOp.s)) < capacity
  /\ size(Stack(lastOp.s)) + Len(lastOp.seq) > capacity

\* C17: a pop or a clear writes no storage slot and no size but that of its
\* object, which pop lowers by one and clear sets to zero; a call of empty,
\* full, size, capacity, top or operator[] writes neither storage nor size.
C17_FrameOfPopClearQueries ==
  [][ LET s == lastOp'.s
      IN  /\ lastOp'.op \in {"pop", "clear"} =>
                /\ c_' = c_
                /\ \A o \in Stacks \ {s} : top_'[o] = top_[o]
          /\ lastOp'.op = "pop" /\ status' = "run" => top_'[s] = top_[s] - 1
          /\ lastOp'.op = "clear" => top_'[s] = 0
          /\ lastOp'.op \in Queries \cup {"top", "index"} =>
                c_' = c_ /\ top_' = top_ ]_vars

\* a pop has vacated a slot that holds a value other than a default one
C17_Witness ==
  /\ lastOp.op = "pop" /\ status = "run"
  /\ top_[lastOp.s] < N
  /\ c_[lastOp.s][top_[lastOp.s]] = MaxVal

====
